---- MODULE Spec2Model ----
(***************************************************************************)
(* Model of goldie, a golden-file assertion helper for Go tests.          *)
(*                                                                         *)
(* Strings and byte slices are sequences of one-character strings.  The   *)
(* file system is a finite map from cleaned relative paths to nodes; a    *)
(* directory node carries the modification time that ensureDir reads.     *)
(***************************************************************************)
EXTENDS Integers, Sequences, FiniteSets

VARIABLES fs, ts, now, update, clean, runs, written, last, testers, arg, out,
          procs, latest

vars ==
    <<fs, ts, now, update, clean, runs, written, last, testers, arg, out, procs,
      latest>>

\* ------------------------------------------------------------------------
\* Bounds of the model
\* ------------------------------------------------------------------------

\* number of test runs (process starts) explored
MaxRuns == 2

\* longest byte string given to normalizeLF
MaxLen == 4

\* number of testers that live at the same time
MaxTesters == 2

\* the longest option list New is called with
MaxOptions == 3

\* ------------------------------------------------------------------------
\* Strings and paths
\* ------------------------------------------------------------------------

Slash == "/"

\* the path "." that filepath.Clean and filepath.Dir return for an empty path
Dot == <<".">>

\* strings.Split(s, sep) for a one-character separator: the segments
\* between separators, empty ones kept
RECURSIVE SplitFrom(_, _, _, _)
SplitFrom(s, sep, i, cur) ==
    IF i > Len(s) THEN <<cur>>
    ELSE IF s[i] = sep THEN <<cur>> \o SplitFrom(s, sep, i + 1, <<>>)
    ELSE SplitFrom(s, sep, i + 1, Append(cur, s[i]))

Split(s, sep) == SplitFrom(s, sep, 1, <<>>)

\* segments joined by the separator
RECURSIVE JoinSegs(_)
JoinSegs(segs) ==
    IF Len(segs) = 0 THEN <<>>
    ELSE IF Len(segs) = 1 THEN segs[1]
    ELSE segs[1] \o <<Slash>> \o JoinSegs(Tail(segs))

\* filepath.Clean on a relative path without "..": empty and "." segments
\* are dropped, the empty path becomes "."
Clean(p) ==
    LET segs == SelectSeq(Split(p, Slash), LAMBDA x : x # <<>> /\ x # Dot)
    IN  IF Len(segs) = 0 THEN Dot ELSE JoinSegs(segs)

\* filepath.Join(elems...): empty elements are ignored, the rest joined by
\* the separator and cleaned; all elements empty gives the empty string
Join(elems) ==
    LET ne == SelectSeq(elems, LAMBDA x : x # <<>>)
    IN  IF Len(ne) = 0 THEN <<>> ELSE Clean(JoinSegs(ne))

\* filepath.Dir(p) of a cleaned relative path
Dir(p) ==
    LET segs == Split(p, Slash)
    IN  IF Len(segs) <= 1 THEN Dot
        ELSE JoinSegs(SubSeq(segs, 1, Len(segs) - 1))

\* the proper ancestors of a cleaned relative path
Ancestors(p) ==
    LET segs == Split(p, Slash)
    IN  { JoinSegs(SubSeq(segs, 1, k)) : k \in 1 .. (Len(segs) - 1) }

\* q is p or lies below p
IsUnder(q, p) ==
    q = p \/ (Len(q) > Len(p) /\ SubSeq(q, 1, Len(p) + 1) = p \o <<Slash>>)

\* ------------------------------------------------------------------------
\* Byte slices
\* ------------------------------------------------------------------------

\* a nil []byte and a non-nil []byte holding b
NilBytes == [isNil |-> TRUE, b |-> <<>>]
Bytes(s) == [isNil |-> FALSE, b |-> s]

\* bytes.Equal taken as identity of slices: nil differs from empty
BytesEqualStrict(x, y) == x = y

\* bytes.Equal: compares contents, a nil slice equals an empty one
BytesEqual(x, y) == x.b = y.b

CR == "\r"
LF == "\n"

\* s starts with old at position i
HasAt(s, old, i) ==
    i + Len(old) - 1 <= Len(s) /\ SubSeq(s, i, i + Len(old) - 1) = old

\* bytes.Replace(s, old, new, -1) from position i on, for a non-empty old:
\* the leftmost occurrences of old that do not overlap are replaced
RECURSIVE ReplaceFrom(_, _, _, _)
ReplaceFrom(s, old, new, i) ==
    IF i > Len(s) THEN <<>>
    ELSE IF HasAt(s, old, i)
    THEN new \o ReplaceFrom(s, old, new, i + Len(old))
    ELSE <<s[i]>> \o ReplaceFrom(s, old, new, i + 1)

\* bytes.Replace(s, old, new, -1) for an empty old: new goes in before every
\* character and at the end
RECURSIVE InsertAround(_, _)
InsertAround(s, new) ==
    IF Len(s) = 0 THEN new
    ELSE new \o <<Head(s)>> \o InsertAround(Tail(s), new)

\* bytes.ReplaceAll(s, old, new) and bytes.Replace(s, old, new, -1)
ReplaceAll(s, old, new) ==
    IF Len(old) = 0 THEN InsertAround(s, new) ELSE ReplaceFrom(s, old, new, 1)

\* normalizeLF that replaces the lone CR only
normalizeLFLoneCR(d) ==
    IF Len(d.b) = 0 THEN d
    ELSE Bytes(ReplaceAll(d.b, <<CR>>, <<LF>>))

\* normalizeLF(d): an empty or nil d is returned as it is; CR LF becomes LF,
\* then CR becomes LF
normalizeLF(d) ==
    IF Len(d.b) = 0 THEN d
    ELSE Bytes(ReplaceAll(ReplaceAll(d.b, <<CR, LF>>, <<LF>>), <<CR>>, <<LF>>))

\* ------------------------------------------------------------------------
\* Errors
\* ------------------------------------------------------------------------

\* the text that diff function or engine `by` returns for (actual, expected);
\* NoDiff is the empty text
DiffText(by, actual, expected) ==
    [by |-> by, actual |-> actual, expected |-> expected]
NoDiff == DiffText("", <<>>, <<>>)

\* an error value: its kind, the cause it wraps and the diff its message
\* carries
Err(k, c) == [kind |-> k, cause |-> c, diff |-> NoDiff]
NoErr == Err("nil", "")

newErrFixtureNotFound == Err("FixtureNotFound", "")

\* newErrFixtureMismatch(msg), msg being the fixed headline followed by the
\* diff text
newErrFixtureMismatch(msg) == [Err("FixtureMismatch", "") EXCEPT !.diff = msg]
newErrMissingKey == Err("MissingKey", "")
newErrFixtureDirectoryIsFile == Err("FixtureDirectoryIsFile", "")

\* a raw error of the os package (*PathError), named by its errno
PathError(errno) == Err("PathError", errno)

\* fmt.Errorf("Expected %s to be nil", err.Error())
ErrExpectedNil(e) == Err("Expected", e)

\* os.IsNotExist that also accepts a non-directory on the way
IsNotExistOrNotDir(errno) == errno \in {"ENOENT", "ENOTDIR"}

\* os.IsNotExist
IsNotExist(errno) == errno = "ENOENT"

\* ------------------------------------------------------------------------
\* The file system
\* ------------------------------------------------------------------------

DirNode(m) == [kind |-> "dir", data |-> <<>>, mtime |-> m]
FileNode(d) == [kind |-> "file", data |-> d, mtime |-> 0]

\* the result of resolving path p: "ok", "ENOENT" or "ENOTDIR"
Lookup(f, p) ==
    IF p \in DOMAIN f THEN "ok"
    ELSE IF \E q \in Ancestors(p) : q \in DOMAIN f /\ f[q].kind = "file"
         THEN "ENOTDIR"
         ELSE "ENOENT"

\* the modification time of directory p becomes m
Touch(f, p, m) ==
    IF p \in DOMAIN f THEN [f EXCEPT ![p].mtime = m] ELSE f

\* os.MkdirAll(p, perms) at time t
MkdirAll(f, p, t) ==
    IF p \in DOMAIN f
    THEN [err |-> IF f[p].kind = "dir" THEN NoErr ELSE PathError("ENOTDIR"),
          fs |-> f]
    ELSE IF Lookup(f, p) = "ENOTDIR"
    THEN [err |-> PathError("ENOTDIR"), fs |-> f]
    ELSE LET chain == Ancestors(p) \cup {p}
             new == { q \in chain : q \notin DOMAIN f }
             top == CHOOSE q \in new : \A r \in new : Len(q) <= Len(r)
             g == [q \in DOMAIN f \cup new |->
                     IF q \in new THEN DirNode(t) ELSE f[q]]
         IN  [err |-> NoErr, fs |-> Touch(g, Dir(top), t)]

\* os.RemoveAll(p) at time t
RemoveAll(f, p, t) ==
    IF p = Dot THEN [err |-> PathError("EINVAL"), fs |-> f]
    ELSE IF p \notin DOMAIN f THEN [err |-> NoErr, fs |-> f]
    ELSE LET keep == { q \in DOMAIN f : ~IsUnder(q, p) }
             g == [q \in keep |-> f[q]]
         IN  [err |-> NoErr, fs |-> Touch(g, Dir(p), t)]

\* os.WriteFile(p, d, perms) at time t
WriteFile(f, p, d, t) ==
    IF p \in DOMAIN f
    THEN IF f[p].kind = "dir"
         THEN [err |-> PathError("EISDIR"), fs |-> f]
         ELSE [err |-> NoErr, fs |-> [f EXCEPT ![p] = FileNode(d.b)]]
    ELSE IF Lookup(f, p) = "ENOTDIR"
    THEN [err |-> PathError("ENOTDIR"), fs |-> f]
    ELSE IF Dir(p) \notin DOMAIN f
    THEN [err |-> PathError("ENOENT"), fs |-> f]
    ELSE LET g == [q \in DOMAIN f \cup {p} |->
                     IF q = p THEN FileNode(d.b) ELSE f[q]]
         IN  [err |-> NoErr, fs |-> Touch(g, Dir(p), t)]

\* os.Chtimes(p, m, m)
Chtimes(f, p, m) ==
    IF p \in DOMAIN f
    THEN [err |-> NoErr, fs |-> [f EXCEPT ![p].mtime = m]]
    ELSE [err |-> PathError(Lookup(f, p)), fs |-> f]

\* os.ReadFile(p)
ReadFile(f, p) ==
    IF p \in DOMAIN f
    THEN IF f[p].kind = "dir"
         THEN [errno |-> "EISDIR", data |-> NilBytes]
         ELSE [errno |-> "", data |-> Bytes(f[p].data)]
    ELSE [errno |-> Lookup(f, p), data |-> NilBytes]

\* ------------------------------------------------------------------------
\* Testers
\* ------------------------------------------------------------------------

defaultFixtureDir == <<"t">>
defaultFileNameSuffix == <<".", "g">>
defaultFilePerms == "rw-r--r--"
defaultDirPerms == "rwxr-xr-x"
defaultDiffEngine == "ClassicDiff"
defaultIgnoreTemplateErrors == FALSE
defaultUseTestNameForDir == FALSE
defaultUseSubTestNameForDir == FALSE

\* the diffFn field of a tester that has none
NilDiffFn == "nil"

\* the tester New starts from
defaults ==
    [fixtureDir |-> defaultFixtureDir,
     fileNameSuffix |-> defaultFileNameSuffix,
     filePerms |-> defaultFilePerms,
     dirPerms |-> defaultDirPerms,
     diffEngine |-> defaultDiffEngine,
     diffFn |-> NilDiffFn,
     ignoreTemplateErrors |-> defaultIgnoreTemplateErrors,
     useTestNameForDir |-> defaultUseTestNameForDir,
     useSubTestNameForDir |-> defaultUseSubTestNameForDir]

WithFixtureDir(g, dir) == [g EXCEPT !.fixtureDir = dir]
WithNameSuffix(g, suffix) == [g EXCEPT !.fileNameSuffix = suffix]
WithFilePerms(g, mode) == [g EXCEPT !.filePerms = mode]
WithDirPerms(g, mode) == [g EXCEPT !.dirPerms = mode]
WithDiffEngine(g, engine) == [g EXCEPT !.diffEngine = engine]
WithDiffFn(g, fn) == [g EXCEPT !.diffFn = fn]
WithIgnoreTemplateErrors(g, b) == [g EXCEPT !.ignoreTemplateErrors = b]
WithTestNameForDir(g, b) == [g EXCEPT !.useTestNameForDir = b]
WithSubTestNameForDir(g, b) == [g EXCEPT !.useSubTestNameForDir = b]

\* one option applied to a tester
ApplyOption(g, o) ==
    CASE o.opt = "FixtureDir" -> WithFixtureDir(g, o.val)
      [] o.opt = "NameSuffix" -> WithNameSuffix(g, o.val)
      [] o.opt = "FilePerms" -> WithFilePerms(g, o.val)
      [] o.opt = "DirPerms" -> WithDirPerms(g, o.val)
      [] o.opt = "DiffEngine" -> WithDiffEngine(g, o.val)
      [] o.opt = "DiffFn" -> WithDiffFn(g, o.val)
      [] o.opt = "IgnoreTemplateErrors" -> WithIgnoreTemplateErrors(g, o.val)
      [] o.opt = "TestNameForDir" -> WithTestNameForDir(g, o.val)
      [] o.opt = "SubTestNameForDir" -> WithSubTestNameForDir(g, o.val)
      [] o.opt = "Error" -> g

\* an Option of the caller whose function returns an error; the option
\* methods of Goldie all return nil
OptionFails(o) == o.opt = "Error"

\* the loop of New that goes on to the next option after an error
RECURSIVE ApplyOptionsPastError(_, _)
ApplyOptionsPastError(g, options) ==
    IF Len(options) = 0 THEN [g |-> g, err |-> FALSE]
    ELSE LET rest == ApplyOptionsPastError(ApplyOption(g, Head(options)),
                                           Tail(options))
         IN  [rest EXCEPT !.err = @ \/ OptionFails(Head(options))]

\* the loop of New: the options are applied in order to g; an option that
\* returns an error ends the loop, t.FailNow() stopping the goroutine
RECURSIVE ApplyOptions(_, _)
ApplyOptions(g, options) ==
    IF Len(options) = 0 THEN [g |-> g, err |-> FALSE]
    ELSE IF OptionFails(Head(options))
    THEN [g |-> ApplyOption(g, Head(options)), err |-> TRUE]
    ELSE ApplyOptions(ApplyOption(g, Head(options)), Tail(options))

\* New(t, options...): the tester the loop leaves
New(options) == ApplyOptions(defaults, options).g

\* New(t, options...) called t.Error and t.FailNow
NewFailNow(options) == ApplyOptions(defaults, options).err

Opt(o, v) == [opt |-> o, val |-> v]

\* GoldenFileName that folds the first sub-test segment only
GoldenFileNameFirstSubTest(g, tn, name) ==
    LET n == Split(tn, Slash)
        dir0 == g.fixtureDir
        dir1 == IF g.useTestNameForDir THEN Join(<<dir0, n[1]>>) ELSE dir0
        dir2 == IF g.useSubTestNameForDir /\ Len(n) > 1
                THEN Join(<<dir1, n[2]>>)
                ELSE dir1
    IN  Join(<<dir2, name \o g.fileNameSuffix>>)

\* GoldenFileName(t, name), tn being t.Name()
GoldenFileName(g, tn, name) ==
    LET n == Split(tn, Slash)
        dir0 == g.fixtureDir
        dir1 == IF g.useTestNameForDir THEN Join(<<dir0, n[1]>>) ELSE dir0
        dir2 == IF g.useSubTestNameForDir /\ Len(n) > 1
                THEN Join(<<dir1>> \o Tail(n))
                ELSE dir1
    IN  Join(<<dir2, name \o g.fileNameSuffix>>)

\* ------------------------------------------------------------------------
\* Update
\* ------------------------------------------------------------------------

\* ensureDir that cleans the parent of a stale directory
ensureDirCleanParent(f, loc) ==
    LET st == Lookup(f, loc)
    IN  IF st = "ENOENT" THEN MkdirAll(f, loc, now)
        ELSE IF st = "ok" /\ f[loc].kind = "dir" /\ clean /\ f[loc].mtime < ts
        THEN LET r == RemoveAll(f, Dir(loc), now)
             IN  IF r.err # NoErr THEN r ELSE MkdirAll(r.fs, loc, now)
        ELSE IF st = "ok" /\ f[loc].kind # "dir"
        THEN [err |-> newErrFixtureDirectoryIsFile, fs |-> f]
        ELSE [err |-> IF st = "ok" THEN NoErr ELSE PathError(st), fs |-> f]

\* ensureDir that cleans a stale directory whatever the clean flag says
ensureDirAlwaysClean(f, loc) ==
    LET st == Lookup(f, loc)
    IN  IF st = "ENOENT" THEN MkdirAll(f, loc, now)
        ELSE IF st = "ok" /\ f[loc].kind = "dir" /\ f[loc].mtime < ts
        THEN LET r == RemoveAll(f, loc, now)
             IN  IF r.err # NoErr THEN r ELSE MkdirAll(r.fs, loc, now)
        ELSE IF st = "ok" /\ f[loc].kind # "dir"
        THEN [err |-> newErrFixtureDirectoryIsFile, fs |-> f]
        ELSE [err |-> IF st = "ok" THEN NoErr ELSE PathError(st), fs |-> f]

\* ensureDir that cleans every directory it finds, stale or not, whatever
\* the clean flag says
ensureDirFresh(f, loc) ==
    LET st == Lookup(f, loc)
    IN  IF st = "ENOENT" THEN MkdirAll(f, loc, now)
        ELSE IF st = "ok" /\ f[loc].kind = "dir"
        THEN LET r == RemoveAll(f, loc, now)
             IN  IF r.err # NoErr THEN r ELSE MkdirAll(r.fs, loc, now)
        ELSE IF st = "ok" /\ f[loc].kind # "dir"
        THEN [err |-> newErrFixtureDirectoryIsFile, fs |-> f]
        ELSE [err |-> IF st = "ok" THEN NoErr ELSE PathError(st), fs |-> f]

\* ensureDir(loc) on file system f
ensureDir(f, loc) ==
    LET st == Lookup(f, loc)
    IN  IF st = "ENOENT" THEN MkdirAll(f, loc, now)
        ELSE IF st = "ok" /\ f[loc].kind = "dir" /\ clean /\ f[loc].mtime < ts
        THEN LET r == RemoveAll(f, loc, now)
             IN  IF r.err # NoErr THEN r ELSE MkdirAll(r.fs, loc, now)
        ELSE IF st = "ok" /\ f[loc].kind # "dir"
        THEN [err |-> newErrFixtureDirectoryIsFile, fs |-> f]
        ELSE [err |-> IF st = "ok" THEN NoErr ELSE PathError(st), fs |-> f]

\* the end of Update: w is the result of os.WriteFile, then os.Chtimes
updateChtimes(goldenFileDir, w) ==
    IF w.err # NoErr THEN w ELSE Chtimes(w.fs, goldenFileDir, ts)

\* the middle of Update: e is the result of ensureDir, then os.WriteFile
updateWrite(goldenFile, actualData, e) ==
    IF e.err # NoErr THEN e
    ELSE updateChtimes(Dir(goldenFile),
                       WriteFile(e.fs, goldenFile, actualData, now))

\* Update that leaves the directory's modification time alone
UpdateNoChtimes(g, tn, name, actualData, f) ==
    LET goldenFile == GoldenFileName(g, tn, name)
        e == ensureDir(f, Dir(goldenFile))
    IN  IF e.err # NoErr THEN e
        ELSE WriteFile(e.fs, goldenFile, actualData, now)

\* Update(t, name, actualData) on file system f: ensureDir, os.WriteFile,
\* os.Chtimes, the first error returned
Update(g, tn, name, actualData, f) ==
    updateWrite(GoldenFileName(g, tn, name), actualData,
                ensureDir(f, Dir(GoldenFileName(g, tn, name))))

\* ------------------------------------------------------------------------
\* compare
\* ------------------------------------------------------------------------

\* Diff(engine, actual, expected): the Simple engine and every unknown
\* engine format "Expected: ...\nGot: ...", ClassicDiff is difflib's unified
\* diff from expected to actual, ColoredDiff is diffmatchpatch's diff of
\* (actual, expected)
Diff(engine, actual, expected) ==
    CASE engine = "ClassicDiff" -> DiffText("ClassicDiff", actual, expected)
      [] engine = "ColoredDiff" -> DiffText("ColoredDiff", actual, expected)
      [] OTHER -> DiffText("Simple", actual, expected)

\* a mismatch message that always comes from the selected engine
mismatchByEngine(g, actual, expected) ==
    newErrFixtureMismatch(Diff(g.diffEngine, actual, expected))

\* the error compare and compareTemplate return on a mismatch: the diff comes
\* from g.diffFn when it is set, from Diff and the selected engine otherwise
mismatch(g, actual, expected) ==
    IF g.diffFn # NilDiffFn
    THEN newErrFixtureMismatch(DiffText(g.diffFn, actual, expected))
    ELSE newErrFixtureMismatch(Diff(g.diffEngine, actual, expected))

\* compare that takes an empty actualData as nothing to compare
compareSkipEmpty(g, tn, name, actualData, f) ==
    LET r == ReadFile(f, GoldenFileName(g, tn, name))
    IN  IF r.errno # ""
        THEN IF IsNotExist(r.errno) THEN newErrFixtureNotFound
             ELSE ErrExpectedNil(r.errno)
        ELSE IF Len(actualData.b) > 0 /\ ~BytesEqual(actualData, r.data)
        THEN mismatch(g, actualData.b, r.data.b)
        ELSE NoErr

\* compare(t, name, actualData) on file system f
compare(g, tn, name, actualData, f) ==
    LET r == ReadFile(f, GoldenFileName(g, tn, name))
    IN  IF r.errno # ""
        THEN IF IsNotExist(r.errno) THEN newErrFixtureNotFound
             ELSE ErrExpectedNil(r.errno)
        ELSE IF ~BytesEqual(actualData, r.data)
        THEN mismatch(g, actualData.b, r.data.b)
        ELSE NoErr

\* ------------------------------------------------------------------------
\* Templates (text/template, as far as fixtures use it)
\* ------------------------------------------------------------------------

\* the values a caller passes as template data: nil, a scalar (by its string
\* form), a map with string keys, a struct (its fields in declaration order,
\* each a <<name, value>> pair) and a slice
DataNil == [kind |-> "nil"]
DataStr(s) == [kind |-> "str", s |-> s]
DataMap(m) == [kind |-> "map", m |-> m]
DataStruct(fields) == [kind |-> "struct", fields |-> fields]
DataSlice(elems) == [kind |-> "slice", elems |-> elems]

\* the characters of the model in byte order
Alphabet ==
    <<"\n", "\r", " ", "(", ")", ".", "/", "0", "1", "2", "7", "8", "9",
      ":", "<", ">", "A", "K", "M", "P", "T", "V", "[", "]",
      "a", "b", "c", "d", "e", "f", "g", "i", "l", "m", "n", "o", "p", "r",
      "t", "u", "v", "x", "y", "{", "}">>

Ord(c) == CHOOSE i \in 1 .. Len(Alphabet) : Alphabet[i] = c

\* x < y as Go strings: byte-wise, a proper prefix first
RECURSIVE StringLess(_, _)
StringLess(x, y) ==
    IF Len(y) = 0 THEN FALSE
    ELSE IF Len(x) = 0 THEN TRUE
    ELSE IF x[1] = y[1] THEN StringLess(Tail(x), Tail(y))
    ELSE Ord(x[1]) < Ord(y[1])

\* sort.Sort(sort.Reverse(sort.StringSlice(keys))): the strings of the set
\* in descending order
RECURSIVE SortReverse(_)
SortReverse(keys) ==
    IF keys = {} THEN <<>>
    ELSE LET top == CHOOSE k \in keys : \A j \in keys \ {k} : StringLess(j, k)
         IN  <<top>> \o SortReverse(keys \ {top})

\* fmt.Sprintf("%d", i) for the indices of the model
Digit(i) == <<Alphabet[Ord("0") + i]>>

\* fmt.Sprintf("%v", v) of an invalid reflect.Value, which is what
\* reflect.ValueOf(nil) is
InvalidValue ==
    <<"<", "i", "n", "v", "a", "l", "i", "d", " ", "r", "e", "f", "l", "e",
      "c", "t", ".", "V", "a", "l", "u", "e", ">">>

\* joinPath that puts a dot before every key
joinPathDotted(path, key) == path \o <<".">> \o key

\* joinPath(path, key)
joinPath(path, key) ==
    IF path = <<".">> THEN path \o key ELSE path \o <<".">> \o key

\* fmt.Sprintf("index (%s) %d", path, i)
indexPath(path, i) ==
    <<"i", "n", "d", "e", "x", " ", "(">> \o path \o <<")", " ">> \o Digit(i)

\* recurseValuePath(v, path): the (string form, path) pairs of the leaves in
\* the order meta stores them; a map is ranged over in any order, so the
\* result is the set of the orders that can occur
RECURSIVE recurseValuePath(_, _), rangeMap(_, _, _), rangeFields(_, _, _),
          rangeElems(_, _, _)
recurseValuePath(v, path) ==
    CASE v.kind = "struct" -> rangeFields(v.fields, 1, path)
      [] v.kind = "map" -> rangeMap(v.m, DOMAIN v.m, path)
      [] v.kind = "slice" -> rangeElems(v.elems, 1, path)
      [] v.kind = "str" -> { <<[key |-> v.s, path |-> path]>> }
      [] v.kind = "nil" -> { <<[key |-> InvalidValue, path |-> path]>> }

rangeFields(fields, i, path) ==
    IF i > Len(fields) THEN { <<>> }
    ELSE { x \o y :
             x \in recurseValuePath(fields[i][2], joinPath(path, fields[i][1])),
             y \in rangeFields(fields, i + 1, path) }

rangeMap(m, keys, path) ==
    IF keys = {} THEN { <<>> }
    ELSE UNION { { x \o y :
                     x \in recurseValuePath(m[k], joinPath(path, k)),
                     y \in rangeMap(m, keys \ {k}, path) } : k \in keys }

rangeElems(elems, i, path) ==
    IF i > Len(elems) THEN { <<>> }
    ELSE { x \o y :
             x \in recurseValuePath(elems[i], indexPath(path, i - 1)),
             y \in rangeElems(elems, i + 1, path) }

\* the map that the assignments meta[key] = path leave, made in the order of
\* the pairs: a later pair overwrites an earlier one with the same key
metaOf(pairs) ==
    [key \in { pairs[i].key : i \in 1 .. Len(pairs) } |->
        LET at == { i \in 1 .. Len(pairs) : pairs[i].key = key }
        IN  pairs[CHOOSE i \in at : \A j \in at : j <= i].path]

\* meta(a): the maps from string form to path that meta can return
meta(a) == { metaOf(pairs) : pairs \in recurseValuePath(a, <<".">>) }

\* fmt.Sprintf("{{%s}}", path)
ref(path) == <<"{", "{">> \o path \o <<"}", "}">>

\* the loop of UpdateWithTemplate: every key of the list, in order, replaced
\* in actualData by the reference to its path
RECURSIVE replaceKeys(_, _, _)
replaceKeys(keys, m, actualData) ==
    IF Len(keys) = 0 THEN actualData
    ELSE replaceKeys(Tail(keys), m,
                     ReplaceAll(actualData, Head(keys), ref(m[Head(keys)])))

\* the bytes UpdateWithTemplate hands to Update: the keys of meta replaced
\* in reverse sorted order; m is the map meta returned
templated(m, actualData) ==
    IF DOMAIN m = {} THEN actualData
    ELSE LET b == replaceKeys(SortReverse(DOMAIN m), m, actualData.b)
         IN  [isNil |-> Len(b) = 0, b |-> b]

LeftDelim == <<"{", "{">>
RightDelim == <<"}", "}">>
Letters == {"a", "b", "K", "M"}
NoValue == <<"<", "n", "o", " ", "v", "a", "l", "u", "e", ">">>

\* strings.Index from position i: the first position >= i where pat occurs
\* in s, 0 when there is none
FindSub(s, pat, i) ==
    LET hits == { j \in i .. (Len(s) - Len(pat) + 1) :
                    SubSeq(s, j, j + Len(pat) - 1) = pat }
    IN  IF hits = {} THEN 0
        ELSE CHOOSE j \in hits : \A k \in hits : j <= k

\* leading and trailing spaces removed
RECURSIVE TrimSpace(_)
TrimSpace(s) ==
    IF Len(s) = 0 THEN s
    ELSE IF s[1] = " " THEN TrimSpace(Tail(s))
    ELSE IF s[Len(s)] = " " THEN TrimSpace(SubSeq(s, 1, Len(s) - 1))
    ELSE s

IsIdent(x) == Len(x) > 0 /\ \A i \in 1 .. Len(x) : x[i] \in Letters

IndexOpen == <<"i", "n", "d", "e", "x", " ", "(">>
Digits == {"0", "1", "2"}

\* the position of the ")" that closes a "(" opened before position i, depth
\* counting the parentheses still open; 0 when there is none
RECURSIVE MatchParen(_, _, _)
MatchParen(s, i, depth) ==
    IF i > Len(s) THEN 0
    ELSE IF s[i] = "(" THEN MatchParen(s, i + 1, depth + 1)
    ELSE IF s[i] = ")"
    THEN IF depth = 1 THEN i ELSE MatchParen(s, i + 1, depth - 1)
    ELSE MatchParen(s, i + 1, depth)

BadExpr == [ok |-> FALSE, e |-> [op |-> "bad"]]

\* the pipeline of one action: ".", a chain of fields ".A.B", or
\* "index (pipeline) i"; everything else the fixtures of the model hold is a
\* parse error
RECURSIVE ParseExpr(_)
ParseExpr(body) ==
    IF body = <<".">> THEN [ok |-> TRUE, e |-> [op |-> "field", path |-> <<>>]]
    ELSE IF Len(body) > 1 /\ body[1] = "."
    THEN IF \A i \in 1 .. Len(Tail(Split(body, "."))) :
                IsIdent(Tail(Split(body, "."))[i])
         THEN [ok |-> TRUE,
               e |-> [op |-> "field", path |-> Tail(Split(body, "."))]]
         ELSE BadExpr
    ELSE IF HasAt(body, IndexOpen, 1)
    THEN LET close == MatchParen(body, Len(IndexOpen) + 1, 1)
             inner == ParseExpr(TrimSpace(SubSeq(body, Len(IndexOpen) + 1,
                                                 close - 1)))
         IN  IF /\ close > 0
                /\ Len(body) = close + 2
                /\ body[close + 1] = " "
                /\ body[close + 2] \in Digits
                /\ inner.ok
             THEN [ok |-> TRUE,
                   e |-> [op |-> "index", x |-> inner.e,
                          i |-> Ord(body[close + 2]) - Ord("0")]]
             ELSE BadExpr
    ELSE BadExpr

\* the body of one action
ParseAction(body) ==
    [ok |-> ParseExpr(body).ok,
     node |-> [t |-> "action", e |-> ParseExpr(body).e]]

\* Parse: the template text from position i as a list of nodes
RECURSIVE ParseFrom(_, _)
ParseFrom(s, i) ==
    LET j == FindSub(s, LeftDelim, i)
    IN  IF j = 0
        THEN [ok |-> TRUE,
              nodes |-> IF i > Len(s) THEN <<>>
                        ELSE <<[t |-> "text", s |-> SubSeq(s, i, Len(s))]>>]
        ELSE LET k == FindSub(s, RightDelim, j + 2)
                 a == ParseAction(TrimSpace(SubSeq(s, j + 2, k - 1)))
                 rest == ParseFrom(s, k + 2)
                 pre == IF j > i THEN <<[t |-> "text", s |-> SubSeq(s, i, j - 1)]>>
                        ELSE <<>>
             IN  IF k = 0 \/ ~a.ok \/ ~rest.ok
                 THEN [ok |-> FALSE, nodes |-> <<>>]
                 ELSE [ok |-> TRUE, nodes |-> pre \o <<a.node>> \o rest.nodes]

Parse(s) == ParseFrom(s, 1)

\* the field of the struct with the given name, as a sequence of at most one
\* value
FieldNamed(fields, name) ==
    LET at == { i \in 1 .. Len(fields) : fields[i][1] = name }
    IN  IF at = {} THEN <<>> ELSE <<fields[CHOOSE i \in at : TRUE][2]>>

EvalError == [ok |-> FALSE, v |-> DataNil]

\* the value of a field chain on v; missingKey is "error" or "default".  A
\* key a map lacks and a field of nil follow missingKey; a field a struct
\* lacks and a field of a scalar or a slice are errors under both
RECURSIVE EvalField(_, _, _)
EvalField(v, path, missingKey) ==
    IF Len(path) = 0 THEN [ok |-> TRUE, v |-> v]
    ELSE CASE v.kind = "nil" ->
                IF missingKey = "error" THEN EvalError
                ELSE EvalField(DataNil, Tail(path), missingKey)
           [] v.kind = "map" ->
                IF Head(path) \in DOMAIN v.m
                THEN EvalField(v.m[Head(path)], Tail(path), missingKey)
                ELSE IF missingKey = "error" THEN EvalError
                ELSE EvalField(DataNil, Tail(path), missingKey)
           [] v.kind = "struct" ->
                IF FieldNamed(v.fields, Head(path)) # <<>>
                THEN EvalField(FieldNamed(v.fields, Head(path))[1], Tail(path),
                               missingKey)
                ELSE EvalError
           [] OTHER -> EvalError

\* fmt.Sprint of one byte of a string, which is what index returns for a
\* string
ByteText(c) ==
    CASE c = "a" -> <<"9", "7">>
      [] c = "b" -> <<"9", "8">>

\* the builtin index on the value x with the integer i
Index(x, i) ==
    IF ~x.ok THEN EvalError
    ELSE CASE x.v.kind = "slice" ->
                IF i < Len(x.v.elems) THEN [ok |-> TRUE, v |-> x.v.elems[i + 1]]
                ELSE EvalError
           [] x.v.kind = "str" ->
                IF i < Len(x.v.s)
                THEN [ok |-> TRUE, v |-> DataStr(ByteText(x.v.s[i + 1]))]
                ELSE EvalError
           [] OTHER -> EvalError

\* the value of a pipeline on data
RECURSIVE Eval(_, _, _)
Eval(e, data, missingKey) ==
    IF e.op = "field" THEN EvalField(data, e.path, missingKey)
    ELSE Index(Eval(e.x, data, missingKey), e.i)

\* the strings of a list joined by single spaces
RECURSIVE Spaced(_)
Spaced(ss) ==
    IF Len(ss) = 0 THEN <<>>
    ELSE IF Len(ss) = 1 THEN ss[1]
    ELSE ss[1] \o <<" ">> \o Spaced(Tail(ss))

\* the keys of a map in ascending order
RECURSIVE SortKeys(_)
SortKeys(keys) ==
    IF keys = {} THEN <<>>
    ELSE LET low == CHOOSE k \in keys : \A j \in keys \ {k} : StringLess(k, j)
         IN  <<low>> \o SortKeys(keys \ {low})

\* fmt.Sprint(v): a map prints as map[k:v ...] with its keys sorted, a
\* struct as {v ...}, a slice as [v ...], nil as <nil>
RECURSIVE Sprint(_)
Sprint(v) ==
    CASE v.kind = "str" -> v.s
      [] v.kind = "nil" -> <<"<", "n", "i", "l", ">">>
      [] v.kind = "map" ->
            <<"m", "a", "p", "[">>
            \o Spaced([i \in 1 .. Cardinality(DOMAIN v.m) |->
                         SortKeys(DOMAIN v.m)[i] \o <<":">>
                         \o Sprint(v.m[SortKeys(DOMAIN v.m)[i]])])
            \o <<"]">>
      [] v.kind = "struct" ->
            <<"{">>
            \o Spaced([i \in 1 .. Len(v.fields) |-> Sprint(v.fields[i][2])])
            \o <<"}">>
      [] v.kind = "slice" ->
            <<"[">>
            \o Spaced([i \in 1 .. Len(v.elems) |-> Sprint(v.elems[i])])
            \o <<"]">>

\* the text an action prints for a value: <no value> for an invalid value
PrintValue(v) ==
    IF v.kind = "nil" THEN NoValue ELSE Sprint(v)

\* Execute: the expansion of the nodes on data
RECURSIVE Execute(_, _, _)
Execute(nodes, data, missingKey) ==
    IF Len(nodes) = 0 THEN [ok |-> TRUE, out |-> <<>>]
    ELSE LET n == Head(nodes)
             e == Eval(n.e, data, missingKey)
             rest == Execute(Tail(nodes), data, missingKey)
         IN  IF n.t = "text"
             THEN IF rest.ok THEN [ok |-> TRUE, out |-> n.s \o rest.out]
                  ELSE rest
             ELSE IF ~e.ok THEN [ok |-> FALSE, out |-> <<>>]
             ELSE IF rest.ok
                  THEN [ok |-> TRUE, out |-> PrintValue(e.v) \o rest.out]
                  ELSE rest

\* compareTemplate that reports a template that does not parse as a missing
\* key
compareTemplateParseMissingKey(g, tn, name, data, actualData, f) ==
    LET r == ReadFile(f, GoldenFileName(g, tn, name))
        missingKey == IF g.ignoreTemplateErrors THEN "default" ELSE "error"
        tmpl == Parse(r.data.b)
        expectedData == Execute(tmpl.nodes, data, missingKey)
    IN  IF r.errno # ""
        THEN IF IsNotExist(r.errno) THEN newErrFixtureNotFound
             ELSE ErrExpectedNil(r.errno)
        ELSE IF ~tmpl.ok \/ ~expectedData.ok THEN newErrMissingKey
        ELSE IF ~BytesEqual(actualData, Bytes(expectedData.out))
        THEN mismatch(g, actualData.b, expectedData.out)
        ELSE NoErr

\* compareTemplate that compares the fixture as it is, without expanding it
compareTemplateRaw(g, tn, name, data, actualData, f) ==
    compare(g, tn, name, actualData, f)

\* compareTemplate(t, name, data, actualData) on file system f
compareTemplate(g, tn, name, data, actualData, f) ==
    LET r == ReadFile(f, GoldenFileName(g, tn, name))
        missingKey == IF g.ignoreTemplateErrors THEN "default" ELSE "error"
        tmpl == Parse(r.data.b)
        expectedData == Execute(tmpl.nodes, data, missingKey)
    IN  IF r.errno # ""
        THEN IF IsNotExist(r.errno) THEN newErrFixtureNotFound
             ELSE ErrExpectedNil(r.errno)
        ELSE IF ~tmpl.ok THEN ErrExpectedNil("parse")
        ELSE IF ~expectedData.ok THEN newErrMissingKey
        ELSE IF ~BytesEqual(actualData, Bytes(expectedData.out))
        THEN mismatch(g, actualData.b, expectedData.out)
        ELSE NoErr

\* UpdateWithTemplate(t, name, data, actualData) on file system f, m being
\* the map meta(data) returned
UpdateWithTemplate(g, tn, name, m, actualData, f) ==
    Update(g, tn, name, templated(m, actualData), f)

\* ------------------------------------------------------------------------
\* Assert and AssertWithTemplate
\* ------------------------------------------------------------------------

\* a report that aborts the test on every comparison error
reportCompareAbortAll(err) ==
    [failed |-> err # NoErr, aborted |-> err # NoErr]

\* the report of a comparison error to testing.T: t.Error always, t.FailNow
\* for a missing fixture only
reportCompare(err) ==
    [failed |-> err # NoErr,
     aborted |-> err # NoErr /\ err.kind = "FixtureNotFound"]

\* the outcome of an Assert whose comparison returned err on file system f
compared(f, err) ==
    [fs |-> f, uerr |-> NoErr, cerr |-> err, compared |-> TRUE,
     failed |-> reportCompare(err).failed,
     aborted |-> reportCompare(err).aborted]

\* the outcome of an Assert whose Update returned u: t.Error and t.FailNow
updateFailed(u) ==
    [fs |-> u.fs, uerr |-> u.err, cerr |-> NoErr, compared |-> FALSE,
     failed |-> TRUE, aborted |-> TRUE]

\* an Assert that never writes, whatever -update says
updateIfSetNever(g, tn, name, actualData, f) == [err |-> NoErr, fs |-> f]

\* the Update that Assert and AssertWithTemplate run when -update is set
updateIfSet(g, tn, name, actualData, f) ==
    IF update THEN Update(g, tn, name, actualData, f)
    ELSE [err |-> NoErr, fs |-> f]

\* Assert that reports a failed Update without t.FailNow and goes on
GoldieAssertNoFailNow(g, tn, name, actualData, f) ==
    LET u == updateIfSet(g, tn, name, actualData, f)
    IN  [compared(u.fs, compare(g, tn, name, actualData, u.fs))
            EXCEPT !.uerr = u.err, !.failed = @ \/ u.err # NoErr]

\* Assert after its Update step returned u
assertAfter(g, tn, name, actualData, u) ==
    IF u.err # NoErr THEN updateFailed(u)
    ELSE compared(u.fs, compare(g, tn, name, actualData, u.fs))

\* Assert(t, name, actualData) on file system f
GoldieAssert(g, tn, name, actualData, f) ==
    assertAfter(g, tn, name, actualData,
                updateIfSet(g, tn, name, actualData, f))

\* AssertWithTemplate after its Update step returned u
assertWithTemplateAfter(g, tn, name, data, actualData, u) ==
    IF u.err # NoErr THEN updateFailed(u)
    ELSE compared(u.fs, compareTemplate(g, tn, name, data, actualData, u.fs))

\* AssertWithTemplate(t, name, data, actualData) on file system f
AssertWithTemplate(g, tn, name, data, actualData, f) ==
    assertWithTemplateAfter(g, tn, name, data, actualData,
                            updateIfSet(g, tn, name, actualData, f))

\* ------------------------------------------------------------------------
\* The calls the model explores
\* ------------------------------------------------------------------------

\* testers whose fixture directories nest, without a file name suffix
GA == New(<<Opt("FixtureDir", <<"A">>), Opt("NameSuffix", <<>>)>>)
GAc == New(<<Opt("FixtureDir", <<"A", "/", "c">>), Opt("NameSuffix", <<>>)>>)
GAcd == New(<<Opt("FixtureDir", <<"A", "/", "c", "/", "d">>),
              Opt("NameSuffix", <<>>)>>)

\* t.Name() of the calling test
TestName == <<"T">>

\* (tester, logical name) pairs: A/c is a fixture of GA and the fixture
\* directory of GAc, and lies above the fixture directory of GAcd
Calls == { <<GA, <<"c">>>>, <<GAc, <<"f">>>>, <<GAcd, <<"f">>>> }

Payloads ==
    { NilBytes, Bytes(<<>>), Bytes(<<"a">>),
      Bytes(<<"{", "{", ".", "K", "}", "}">>) }

Datas == { DataNil, DataMap([k \in {<<"K">>} |-> DataStr(<<"a">>)]) }

\* ------------------------------------------------------------------------
\* State machine
\* ------------------------------------------------------------------------

\* the fixture files of a file system
Files(f) == { p \in DOMAIN f : f[p].kind = "file" }

\* the record of the last call; f2 is the file system it leaves
Call(op, g, name, data, actualData, r, prev, f2) ==
    [op |-> op, g |-> g, tn |-> TestName, name |-> name, data |-> data,
     actualData |-> actualData, uerr |-> r.uerr, cerr |-> r.cerr,
     compared |-> r.compared, failed |-> r.failed, aborted |-> r.aborted,
     prevUpdate |-> prev, removed |-> Files(fs) \ Files(f2)]

NoCall ==
    [op |-> "none", g |-> defaults, tn |-> TestName, name |-> <<>>,
     data |-> DataNil, actualData |-> NilBytes, uerr |-> NoErr,
     cerr |-> NoErr, compared |-> FALSE, failed |-> FALSE,
     aborted |-> FALSE, prevUpdate |-> <<>>, removed |-> {}]

\* the payload of the call just before, when it was a successful Update of
\* the same name by the same tester (a sequence of at most one payload)
PrevUpdate(g, name) ==
    IF last.op = "Update" /\ last.uerr = NoErr /\ last.g = g /\ last.name = name
    THEN <<last.actualData>>
    ELSE <<>>

\* the fixtures written so far in this run
Written(g, name, ok) ==
    IF ok THEN written \cup {GoldenFileName(g, TestName, name)} ELSE written

\* what the most recent successful Update of each fixture path wrote there,
\* f2 being the file system the call leaves
Latest(g, name, ok, f2) ==
    LET p == GoldenFileName(g, TestName, name)
    IN  IF ok /\ p \in DOMAIN f2
        THEN [q \in DOMAIN latest \cup {p} |->
                IF q = p THEN f2[p].data ELSE latest[q]]
        ELSE latest

\* no function under check: arg holds the arguments of a call of a function
\* without side effects, out its result once it has returned
NoArg ==
    [fn |-> "none", g |-> defaults, tn |-> <<>>, name |-> <<>>, d |-> NilBytes,
     options |-> <<>>]
NoOut == <<>>

Init ==
    /\ fs = [p \in {Dot} |-> DirNode(0)]
    /\ ts = 1
    /\ now = 2
    /\ update \in BOOLEAN
    /\ clean \in BOOLEAN
    /\ runs = 1
    /\ written = {}
    /\ last = NoCall
    /\ testers = <<>>
    /\ arg = NoArg
    /\ out = NoOut
    /\ procs = <<>>
    /\ latest = <<>>

\* a new test process starts: the run timestamp is taken and the flags are
\* parsed
StartRun ==
    /\ runs < MaxRuns
    /\ runs' = runs + 1
    /\ ts' = now + 1
    /\ now' = now + 2
    /\ update' \in BOOLEAN
    /\ clean' \in BOOLEAN
    /\ written' = {}
    /\ last' = NoCall
    /\ UNCHANGED <<fs, testers, arg, out, procs, latest>>

\* one call takes effect: r is its outcome, wrote tells whether it wrote
\* its fixture
Effect(op, g, name, data, actualData, r, wrote) ==
    /\ fs' = r.fs
    /\ written' = Written(g, name, wrote /\ r.uerr = NoErr)
    /\ last' = Call(op, g, name, data, actualData, r, PrevUpdate(g, name), r.fs)
    /\ latest' = Latest(g, name, wrote /\ r.uerr = NoErr, r.fs)
    /\ UNCHANGED <<ts, now, update, clean, runs, testers, arg, out, procs>>

\* the outcome of a direct call of Update that returned u
updated(u) ==
    [fs |-> u.fs, uerr |-> u.err, cerr |-> NoErr, compared |-> FALSE,
     failed |-> FALSE, aborted |-> FALSE]

DoUpdate(g, name, actualData) ==
    Effect("Update", g, name, DataNil, actualData,
           updated(Update(g, TestName, name, actualData, fs)), TRUE)

DoCompare(g, name, actualData) ==
    Effect("Compare", g, name, DataNil, actualData,
           [compared(fs, compare(g, TestName, name, actualData, fs))
               EXCEPT !.failed = FALSE, !.aborted = FALSE],
           FALSE)

DoAssert(g, name, actualData) ==
    Effect("Assert", g, name, DataNil, actualData,
           GoldieAssert(g, TestName, name, actualData, fs), update)

DoAssertWithTemplate(g, name, data, actualData) ==
    Effect("AssertWithTemplate", g, name, data, actualData,
           AssertWithTemplate(g, TestName, name, data, actualData, fs), update)

\* one test process: every operation, on fixture paths that collide
Next ==
    \/ \E c \in Calls, d \in Payloads : DoUpdate(c[1], c[2], d)
    \/ \E c \in Calls, d \in Payloads : DoCompare(c[1], c[2], d)
    \/ \E c \in Calls, d \in Payloads : DoAssert(c[1], c[2], d)
    \/ \E c \in Calls, d \in Payloads, x \in Datas :
          DoAssertWithTemplate(c[1], c[2], x, d)

Spec == Init /\ [][Next]_vars

\* (tester, logical name) pairs of successive runs: two fixtures in A, one
\* in A/c and one in A/c/d
CleanCalls ==
    { <<GA, <<"f">>>>, <<GA, <<"h">>>>, <<GAc, <<"f">>>>, <<GAcd, <<"f">>>> }

CleanPayloads == { Bytes(<<"a">>) }

\* successive test processes writing and comparing fixtures in nested
\* directories
NextClean ==
    \/ StartRun
    \/ \E c \in CleanCalls, d \in CleanPayloads : DoUpdate(c[1], c[2], d)
    \/ \E c \in CleanCalls, d \in CleanPayloads : DoCompare(c[1], c[2], d)
    \/ \E c \in CleanCalls, d \in CleanPayloads : DoAssert(c[1], c[2], d)

SpecClean == Init /\ [][NextClean]_vars

\* the sequences of length at most n over the set S
RECURSIVE SeqsUpTo(_, _)
SeqsUpTo(S, n) ==
    IF n = 0 THEN { <<>> }
    ELSE LET shorter == SeqsUpTo(S, n - 1)
         IN  shorter \cup { Append(x, c) : x \in shorter, c \in S }

\* testers for GoldenFileName: every combination of a fixture directory, a
\* suffix and the two folding toggles
NameTesters ==
    { New(<<Opt("FixtureDir", dir), Opt("NameSuffix", sfx),
            Opt("TestNameForDir", tnd), Opt("SubTestNameForDir", snd)>>) :
        dir \in { <<>>, <<"A">>, <<"A", "/", "c">> },
        sfx \in { <<>>, <<".", "g">> },
        tnd \in BOOLEAN, snd \in BOOLEAN }

\* t.Name() of a top-level test, of a sub-test and of a sub-test of a sub-test
TestNames ==
    { <<"P">>, <<"P", "/", "x">>, <<"P", "/", "x", "/", "y">>,
      <<"Q">>, <<"P", "/", ".">> }

LogicalNames == { <<"n">>, <<"x", "/", "n">> }

GoldenFileNameArgs ==
    { [fn |-> "GoldenFileName", g |-> g, tn |-> tn, name |-> name,
       d |-> NilBytes, options |-> <<>>] :
        g \in NameTesters, tn \in TestNames, name \in LogicalNames }

\* byte strings of carriage returns, line feeds and one other byte, and the
\* nil slice
normalizeLFArgs ==
    { [fn |-> "normalizeLF", g |-> defaults, tn |-> <<>>, name |-> <<>>,
       d |-> d, options |-> <<>>] :
        d \in { Bytes(x) : x \in SeqsUpTo({CR, LF, "a"}, MaxLen) } \cup {NilBytes} }

\* option lists for New: two options for one setting, options for other
\* settings and an option that returns an error, in every order
NewArgs ==
    { [fn |-> "New", g |-> defaults, tn |-> <<>>, name |-> <<>>,
       d |-> NilBytes, options |-> options] :
        options \in SeqsUpTo({ Opt("FixtureDir", <<"A">>),
                               Opt("FixtureDir", <<"B">>),
                               Opt("IgnoreTemplateErrors", TRUE),
                               Opt("SubTestNameForDir", TRUE),
                               Opt("Error", <<>>) }, MaxOptions) }

\* one call of a function without side effects, its arguments chosen
InitPure ==
    /\ fs = [p \in {Dot} |-> DirNode(0)]
    /\ ts = 1
    /\ now = 2
    /\ update = FALSE
    /\ clean = FALSE
    /\ runs = 1
    /\ written = {}
    /\ last = NoCall
    /\ testers = <<>>
    /\ arg \in GoldenFileNameArgs \cup normalizeLFArgs \cup NewArgs
    /\ out = NoOut
    /\ procs = <<>>
    /\ latest = <<>>

CallGoldenFileName ==
    /\ arg.fn = "GoldenFileName"
    /\ out = NoOut
    /\ out' = <<GoldenFileName(arg.g, arg.tn, arg.name)>>
    /\ UNCHANGED <<fs, ts, now, update, clean, runs, written, last, testers, arg, procs, latest>>

CallNormalizeLF ==
    /\ arg.fn = "normalizeLF"
    /\ out = NoOut
    /\ out' = <<normalizeLF(arg.d)>>
    /\ UNCHANGED <<fs, ts, now, update, clean, runs, written, last, testers, arg, procs, latest>>

\* New(t, options...): the tester, and whether the test was failed and
\* stopped
CallNew ==
    /\ arg.fn = "New"
    /\ out = NoOut
    /\ out' = <<[g |-> New(arg.options), failed |-> NewFailNow(arg.options),
                 aborted |-> NewFailNow(arg.options)]>>
    /\ UNCHANGED <<fs, ts, now, update, clean, runs, written, last, testers, arg, procs, latest>>

NextPure ==
    \/ CallGoldenFileName
    \/ CallNormalizeLF
    \/ CallNew

SpecPure == InitPure /\ [][NextPure]_vars

\* a tester that ignores template errors, on the fixture directory of GA
GAi ==
    New(<<Opt("FixtureDir", <<"A">>), Opt("NameSuffix", <<>>),
          Opt("IgnoreTemplateErrors", TRUE)>>)

\* a tester whose fixture directory is the fixture path of GA and GAi
GAn == New(<<Opt("FixtureDir", <<"A", "/", "n">>), Opt("NameSuffix", <<>>)>>)

\* (tester, logical name) pairs: GA and GAi share the fixture A/n, which lies
\* above the fixture A/n/f of GAn
TemplateCalls == { <<GA, <<"n">>>>, <<GAi, <<"n">>>>, <<GAn, <<"f">>>> }

\* a map of one and of two entries
Map1(k, v) == DataMap([x \in {k} |-> v])
Map2(k1, v1, k2, v2) == DataMap([x \in {k1, k2} |-> IF x = k1 THEN v1 ELSE v2])

\* template data: nil, a scalar, maps whose leaves are unrelated, a prefix
\* and a suffix of one another, a struct, a slice, and nestings of them
TemplateDatas ==
    { DataNil,
      DataStr(<<"a">>),
      Map1(<<"K">>, DataStr(<<"a", "b">>)),
      Map2(<<"K">>, DataStr(<<"a">>), <<"M">>, DataStr(<<"a", "b">>)),
      Map2(<<"K">>, DataStr(<<"b">>), <<"M">>, DataStr(<<"a", "b">>)),
      Map1(<<"K">>, Map1(<<"M">>, DataStr(<<"a">>))),
      DataStruct(<< <<<<"K">>, DataStr(<<"a">>)>> >>),
      DataStruct(<< <<<<"K">>, DataSlice(<<DataStr(<<"b">>)>>)>> >>),
      DataSlice(<<DataStr(<<"a">>), DataStr(<<"b">>)>>) }

TemplateActuals ==
    { NilBytes, Bytes(<<"a">>), Bytes(<<"a", "b">>), Bytes(<<"b", " ", "a", "b">>) }

\* fixtures written as they are: plain text, references to a key, to a key
\* below a key and to a slice element, and text that is no template
TemplateFixtures ==
    { Bytes(<<"a">>),
      Bytes(<<"{", "{", ".", "K", "}", "}">>),
      Bytes(<<"a", "{", "{", ".", "M", "}", "}">>),
      Bytes(<<"{", "{", ".", "K", ".", "M", "}", "}">>),
      Bytes(<<"{", "{", ".", "K">>) }

DoUpdateWithTemplate(g, name, data, actualData) ==
    \E m \in meta(data) :
        Effect("UpdateWithTemplate", g, name, data, actualData,
               updated(UpdateWithTemplate(g, TestName, name, m, actualData, fs)),
               TRUE)

DoCompareTemplate(g, name, data, actualData) ==
    Effect("CompareWithTemplate", g, name, data, actualData,
           [compared(fs, compareTemplate(g, TestName, name, data, actualData, fs))
               EXCEPT !.failed = FALSE, !.aborted = FALSE],
           FALSE)

\* fixtures written with and without template data, then compared as
\* templates
NextTemplate ==
    \/ \E c \in TemplateCalls, d \in TemplateFixtures :
          DoUpdate(c[1], c[2], d)
    \/ \E c \in TemplateCalls, x \in TemplateDatas, d \in TemplateActuals :
          DoUpdateWithTemplate(c[1], c[2], x, d)
    \/ \E c \in TemplateCalls, x \in TemplateDatas, d \in TemplateActuals :
          DoCompareTemplate(c[1], c[2], x, d)

InitTemplate ==
    /\ Init
    /\ ~update
    /\ ~clean

SpecTemplate == InitTemplate /\ [][NextTemplate]_vars

\* template data whose leaves meet: a map with one leaf, one with two equal
\* leaves, one with a leaf that is the name of a key, one whose only leaf is
\* the empty string, a slice in a struct and a struct in a slice
LeafDatas ==
    { Map1(<<"K">>, DataStr(<<"a">>)),
      Map2(<<"K">>, DataStr(<<"a">>), <<"M">>, DataStr(<<"a">>)),
      Map2(<<"K">>, DataStr(<<"a">>), <<"M">>, DataStr(<<"K">>)),
      Map1(<<"K">>, DataStr(<<>>)),
      DataStruct(<< <<<<"K">>, DataSlice(<<DataStr(<<"a">>)>>)>> >>),
      DataSlice(<<DataStruct(<< <<<<"K">>, DataStr(<<"a">>)>> >>)>>) }

LeafActuals == { NilBytes, Bytes(<<"a">>), Bytes(<<"b", " ", "a">>) }

\* fixtures written from template data and compared with the same or with
\* other data
NextLeaves ==
    \/ \E x \in LeafDatas, d \in LeafActuals :
          DoUpdateWithTemplate(GA, <<"n">>, x, d)
    \/ \E x \in LeafDatas, d \in LeafActuals :
          DoCompareTemplate(GA, <<"n">>, x, d)

SpecLeaves == InitTemplate /\ [][NextLeaves]_vars

\* (tester, logical name) pairs of which two resolve to the path A/c/f, one
\* to the file A/c that is the directory of that path, and one to A/h
PathCalls ==
    { <<GA, <<"c", "/", "f">>>>, <<GAc, <<"f">>>>, <<GA, <<"c">>>>,
      <<GA, <<"h">>>> }

PathPayloads == { NilBytes, Bytes(<<"a">>), Bytes(<<"b">>) }

\* fixtures written and compared by testers whose paths meet, cleanup
\* disabled
NextPaths ==
    \/ \E c \in PathCalls, d \in PathPayloads : DoUpdate(c[1], c[2], d)
    \/ \E c \in PathCalls, d \in PathPayloads : DoCompare(c[1], c[2], d)

SpecPaths == InitTemplate /\ [][NextPaths]_vars

DiffEngines == { "Simple", "ClassicDiff", "ColoredDiff" }

\* a diff function supplied by the caller
CustomDiffFn == "customDiff"

\* testers on one fixture directory: the default one, one for every engine,
\* and one for every engine with a custom diff function set before or after
\* the engine
DiffTesters ==
    { GA }
    \cup { New(<<Opt("FixtureDir", <<"A">>), Opt("NameSuffix", <<>>),
                 Opt("DiffEngine", e)>>) : e \in DiffEngines }
    \cup { New(<<Opt("FixtureDir", <<"A">>), Opt("NameSuffix", <<>>),
                 Opt("DiffEngine", e), Opt("DiffFn", CustomDiffFn)>>) :
             e \in DiffEngines }
    \cup { New(<<Opt("FixtureDir", <<"A">>), Opt("NameSuffix", <<>>),
                 Opt("DiffFn", CustomDiffFn), Opt("DiffEngine", e)>>) :
             e \in DiffEngines }

DiffFixtures == { Bytes(<<"a">>), Bytes(<<"{", "{", ".", "K", "}", "}">>) }
DiffActuals == { Bytes(<<"a">>), Bytes(<<"b">>), Bytes(<<>>) }
DiffDatas == { DataNil, Map1(<<"K">>, DataStr(<<"b">>)) }

\* fixtures compared, as they are and as templates, by testers that differ
\* in their diff settings
NextDiff ==
    \/ \E g \in DiffTesters, d \in DiffFixtures : DoUpdate(g, <<"n">>, d)
    \/ \E g \in DiffTesters, d \in DiffActuals : DoCompare(g, <<"n">>, d)
    \/ \E g \in DiffTesters, x \in DiffDatas, d \in DiffActuals :
          DoCompareTemplate(g, <<"n">>, x, d)

SpecDiff == InitTemplate /\ [][NextDiff]_vars

\* the option lists New is called with, and the options applied to a tester
\* after New has returned
NewOptions == { <<>>, <<Opt("FixtureDir", <<"A">>)>> }
ConfigOptions ==
    { Opt("FixtureDir", <<"A">>), Opt("FilePerms", "rw-------"),
      Opt("DiffFn", CustomDiffFn), Opt("TestNameForDir", TRUE) }

\* an option method that writes to every tester
setOptionShared(ts_, i, o) == [j \in DOMAIN ts_ |-> ApplyOption(ts_[j], o)]

\* the option method of o called on tester i: it assigns to a field of its
\* receiver
setOption(ts_, i, o) == [ts_ EXCEPT ![i] = ApplyOption(ts_[i], o)]

\* New(t, options...) returns the address of a fresh struct
DoNew(options) ==
    /\ Len(testers) < MaxTesters
    /\ testers' = Append(testers, New(options))
    /\ last' = [NoCall EXCEPT !.op = "New", !.g = New(options)]
    /\ UNCHANGED <<fs, ts, now, update, clean, runs, written, arg, out, procs, latest>>

\* g.With...(v) called on a tester that New returned
DoWith(i, o) ==
    /\ testers' = setOption(testers, i, o)
    /\ last' = [NoCall EXCEPT !.op = "With", !.g = testers[i]]
    /\ UNCHANGED <<fs, ts, now, update, clean, runs, written, arg, out, procs, latest>>

\* g.GoldenFileName(t, name): no side effect
DoGoldenFileName(g, name) ==
    /\ last' = [NoCall EXCEPT !.op = "GoldenFileName", !.g = g, !.name = name]
    /\ UNCHANGED <<fs, ts, now, update, clean, runs, written, testers, arg, out, procs, latest>>

\* g.AssertJson(t, name, v), js being what json.MarshalIndent returns for v
DoAssertJson(g, name, js) ==
    Effect("AssertJson", g, name, DataNil, normalizeLF(js),
           GoldieAssert(g, TestName, name, normalizeLF(js), fs), update)

ConfigPayload == Bytes(<<"a">>)

\* testers are created, reconfigured through their option methods and used
NextConfig ==
    \/ \E options \in NewOptions : DoNew(options)
    \/ \E i \in DOMAIN testers, o \in ConfigOptions : DoWith(i, o)
    \/ \E i \in DOMAIN testers : DoGoldenFileName(testers[i], <<"n">>)
    \/ \E i \in DOMAIN testers : DoUpdate(testers[i], <<"n">>, ConfigPayload)
    \/ \E i \in DOMAIN testers :
          DoUpdateWithTemplate(testers[i], <<"n">>, DataNil, ConfigPayload)
    \/ \E i \in DOMAIN testers : DoCompare(testers[i], <<"n">>, ConfigPayload)
    \/ \E i \in DOMAIN testers :
          DoCompareTemplate(testers[i], <<"n">>, DataNil, ConfigPayload)
    \/ \E i \in DOMAIN testers : DoAssert(testers[i], <<"n">>, ConfigPayload)
    \/ \E i \in DOMAIN testers : DoAssertJson(testers[i], <<"n">>, ConfigPayload)
    \/ \E i \in DOMAIN testers :
          DoAssertWithTemplate(testers[i], <<"n">>, DataNil, ConfigPayload)

SpecConfig == InitTemplate /\ [][NextConfig]_vars

\* fixtures written by goroutines that run at the same time: two in A and
\* one in A/c, each goroutine with a payload of its own
RaceTargets == { <<GA, <<"f">>>>, <<GA, <<"h">>>>, <<GAc, <<"f">>>> }
RacePayloads == <<Bytes(<<"a">>), Bytes(<<"b">>)>>
RaceOps == { "Update", "Assert" }

\* a goroutine about to make its first system call: Assert goes to Update
\* when -update is set and to compare otherwise
Proc(op, c, d) ==
    [op |-> op, g |-> c[1], name |-> c[2], d |-> d, err |-> NoErr,
     pc |-> IF op = "Assert" /\ ~update THEN "read" ELSE "stat"]

\* two tests of the run that call t.Parallel() and then Update or Assert,
\* on different fixture paths
Spawn(op1, c1, op2, c2) ==
    /\ procs = <<>>
    /\ GoldenFileName(c1[1], TestName, c1[2])
         # GoldenFileName(c2[1], TestName, c2[2])
    /\ procs' = <<Proc(op1, c1, RacePayloads[1]), Proc(op2, c2, RacePayloads[2])>>
    /\ UNCHANGED <<fs, ts, now, update, clean, runs, written, last, testers,
                   arg, out, latest>>

\* the fixture path and the fixture directory of goroutine i
ProcFile(i) == GoldenFileName(procs[i].g, TestName, procs[i].name)
ProcDir(i) == Dir(ProcFile(i))

\* where ensureDir goes after os.Stat(loc) returned
afterStat(f, loc) ==
    LET st == Lookup(f, loc)
    IN  IF st = "ENOENT" THEN [pc |-> "mkdir", err |-> NoErr]
        ELSE IF st = "ok" /\ f[loc].kind = "dir" /\ clean /\ f[loc].mtime < ts
        THEN [pc |-> "remove", err |-> NoErr]
        ELSE IF st = "ok" /\ f[loc].kind # "dir"
        THEN [pc |-> "done", err |-> newErrFixtureDirectoryIsFile]
        ELSE IF st = "ok" THEN [pc |-> "write", err |-> NoErr]
        ELSE [pc |-> "done", err |-> PathError(st)]

\* goroutine i made a system call that returned r: on an error the call
\* returns it, otherwise the goroutine goes on to pc
Returned(i, r, pc) ==
    /\ fs' = r.fs
    /\ procs' = [procs EXCEPT ![i].err = r.err,
                              ![i].pc = IF r.err # NoErr THEN "done" ELSE pc]
    /\ UNCHANGED <<ts, now, update, clean, runs, written, last, testers, arg,
                   out, latest>>

\* ensureDir: os.Stat(loc)
StepStat(i) ==
    /\ procs[i].pc = "stat"
    /\ procs' = [procs EXCEPT ![i].err = afterStat(fs, ProcDir(i)).err,
                              ![i].pc = afterStat(fs, ProcDir(i)).pc]
    /\ UNCHANGED <<fs, ts, now, update, clean, runs, written, last, testers,
                   arg, out, latest>>

\* ensureDir: os.RemoveAll(loc)
StepRemove(i) ==
    /\ procs[i].pc = "remove"
    /\ Returned(i, RemoveAll(fs, ProcDir(i), now), "mkdir")

\* ensureDir: os.MkdirAll(loc, g.dirPerms)
StepMkdir(i) ==
    /\ procs[i].pc = "mkdir"
    /\ Returned(i, MkdirAll(fs, ProcDir(i), now), "write")

\* Update: os.WriteFile(goldenFile, actualData, g.filePerms)
StepWrite(i) ==
    /\ procs[i].pc = "write"
    /\ Returned(i, WriteFile(fs, ProcFile(i), procs[i].d, now), "chtimes")

\* Update: os.Chtimes(goldenFileDir, ts, ts); Assert goes on to compare
StepChtimes(i) ==
    /\ procs[i].pc = "chtimes"
    /\ Returned(i, Chtimes(fs, ProcDir(i), ts),
                IF procs[i].op = "Assert" THEN "read" ELSE "done")

\* compare: os.ReadFile(goldenFile) and the comparison
StepRead(i) ==
    /\ procs[i].pc = "read"
    /\ Returned(i, [fs |-> fs,
                    err |-> compare(procs[i].g, TestName, procs[i].name,
                                    procs[i].d, fs)], "done")

\* earlier calls and runs leave fixtures behind, then two goroutines of one
\* run make their system calls in any order
NextRace ==
    \/ \E c \in RaceTargets :
          procs = <<>> /\ runs = 1 /\ DoUpdate(c[1], c[2], RacePayloads[1])
    \/ procs = <<>> /\ StartRun
    \/ \E op1 \in RaceOps, op2 \in RaceOps, c1 \in RaceTargets, c2 \in RaceTargets :
          Spawn(op1, c1, op2, c2)
    \/ \E i \in DOMAIN procs : StepStat(i)
    \/ \E i \in DOMAIN procs : StepRemove(i)
    \/ \E i \in DOMAIN procs : StepMkdir(i)
    \/ \E i \in DOMAIN procs : StepWrite(i)
    \/ \E i \in DOMAIN procs : StepChtimes(i)
    \/ \E i \in DOMAIN procs : StepRead(i)

SpecRace == Init /\ [][NextRace]_vars

TypeOK ==
    /\ runs \in 1 .. MaxRuns
    /\ Dot \in DOMAIN fs

\* ------------------------------------------------------------------------
\* Properties
\* ------------------------------------------------------------------------

\* the fixture path and fixture directory of a recorded call
FileOf(l) == GoldenFileName(l.g, l.tn, l.name)
DirOf(l) == Dir(FileOf(l))

AssertOps == {"Assert", "AssertJson", "AssertWithTemplate"}

\* the call runs in update mode / cannot write
UpdateMode(l) ==
    l.op \in {"Update", "UpdateWithTemplate"} \/ (l.op \in AssertOps /\ update)
ReadOnly(l) ==
    l.op \in {"Compare", "CompareWithTemplate"} \/ (l.op \in AssertOps /\ ~update)

\* a read error other than not-exist, as compare wraps it
IsReadError(e) == e.kind = "Expected" /\ e.cause \in {"EISDIR", "ENOTDIR"}

\* C1: a successful Update(n, d) immediately followed by Compare(n, d) on the
\* same tester succeeds, for every payload d, the empty and the nil one
\* included.
C1_UpdateThenCompare ==
    (/\ last.op = "Compare"
     /\ last.prevUpdate # <<>>
     /\ last.prevUpdate[1] = last.actualData)
        => last.cerr = NoErr

\* C1 witness: Compare(n, nil) succeeded right after Update(n, nil).
C1_Witness ==
    /\ last.op = "Compare"
    /\ last.prevUpdate = <<NilBytes>>
    /\ last.actualData = NilBytes
    /\ last.cerr = NoErr

\* C2: a successful Update(n, d1) immediately followed by Compare(n, d2) with
\* different bytes fails with FixtureMismatch, and the fixture still holds d1.
C2_UpdateThenMismatch ==
    (/\ last.op = "Compare"
     /\ last.prevUpdate # <<>>
     /\ last.prevUpdate[1].b # last.actualData.b)
        => /\ last.cerr.kind = "FixtureMismatch"
           /\ FileOf(last) \in Files(fs)
           /\ fs[FileOf(last)].data = last.prevUpdate[1].b

\* C2 witness: Compare(n, d2) reported a mismatch right after Update(n, d1)
\* with a non-empty d1 and an empty d2.
C2_Witness ==
    /\ last.op = "Compare"
    /\ last.prevUpdate = <<Bytes(<<"a">>)>>
    /\ last.actualData = Bytes(<<>>)
    /\ last.cerr.kind = "FixtureMismatch"

\* C3 as stated: Compare(n, d) with no fixture file at the resolved path
\* fails with FixtureNotFound and changes nothing on disk.
C3_Original ==
    [][(last'.op = "Compare" /\ FileOf(last') \notin Files(fs))
          => (last'.cerr = newErrFixtureNotFound /\ fs' = fs)]_vars

\* C3 amended: Compare(n, d) changes nothing on disk; it fails with
\* FixtureNotFound when nothing exists at the resolved path and no ancestor
\* of it is a regular file, and with a generic read error when the path is a
\* directory or an ancestor is a regular file.
C3_CompareNotFound ==
    [][last'.op = "Compare"
          => LET p == FileOf(last')
             IN  /\ fs' = fs
                 /\ Lookup(fs, p) = "ENOENT"
                       => last'.cerr = newErrFixtureNotFound
                 /\ (Lookup(fs, p) = "ENOTDIR" \/ p \in DOMAIN fs \ Files(fs))
                       => IsReadError(last'.cerr)]_vars

\* C3 witness: Compare(n, empty) on a path where nothing exists reported
\* FixtureNotFound.
C3_Witness ==
    /\ last.op = "Compare"
    /\ last.actualData = Bytes(<<>>)
    /\ Lookup(fs, FileOf(last)) = "ENOENT"
    /\ last.cerr = newErrFixtureNotFound

\* a fixture file that the step creates or overwrites
Writes(f, f2) == { p \in Files(f2) : p \notin Files(f) \/ f2[p] # f[p] }

\* C4 as stated: fixture files are created or overwritten only in update
\* mode, the comparing operations change nothing, and no operation deletes
\* an existing fixture file.
C4_Original ==
    [][/\ Writes(fs, fs') # {} => UpdateMode(last')
       /\ ReadOnly(last') => fs' = fs
       /\ Files(fs) \subseteq Files(fs')]_vars

\* C4 amended: fixture files are created or overwritten only in update mode,
\* the comparing operations change nothing, and an existing fixture file is
\* deleted only by an update-mode operation run with the clean flag whose
\* fixture directory is older than the run timestamp, the file lying in or
\* below that directory.
C4_Lifecycle ==
    [][/\ Writes(fs, fs') # {} => UpdateMode(last')
       /\ ReadOnly(last') => fs' = fs
       /\ \A p \in Files(fs) \ Files(fs') :
             /\ UpdateMode(last')
             /\ clean
             /\ IsUnder(p, DirOf(last'))
             /\ fs[DirOf(last')].mtime < ts]_vars

\* C4 witness: an Assert in update mode with the clean flag removed a
\* fixture file of an earlier run.
C4_Witness ==
    /\ last.op = "Assert"
    /\ update /\ clean
    /\ last.removed # {}
    /\ last.uerr = NoErr

\* C5: in a later run with cleanup and update enabled, every directory
\* rewritten in the run holds only the run's files: each fixture written in
\* the run is present and no other fixture shares its directory.
C5_RewrittenDirsHoldLaterRun ==
    (runs > 1 /\ clean /\ update)
        => \A p \in written :
              /\ p \in Files(fs)
              /\ \A q \in Files(fs) : Dir(q) = Dir(p) => q \in written

\* the directories targeted by the successful Updates of this run
Targeted == { Dir(p) : p \in written }

C7_Translation ==
    (last.op \in {"Assert", "AssertWithTemplate"} /\ last.compared)
        => /\ last.cerr = newErrFixtureNotFound
                 => (last.failed /\ last.aborted)
           /\ last.cerr.kind \in {"FixtureMismatch", "MissingKey"}
                 => (last.failed /\ ~last.aborted)
           /\ last.cerr = NoErr => (~last.failed /\ ~last.aborted)

\* C7 witness: AssertWithTemplate met a missing key, recorded the failure
\* and did not abort.
C7_Witness ==
    /\ last.op = "AssertWithTemplate"
    /\ last.cerr = newErrMissingKey
    /\ last.failed /\ ~last.aborted

\* C8 as stated: in Assert and AssertWithTemplate a failed fixture write and
\* a read error other than not-exist both abort the test.
C8_Original ==
    (last.op \in {"Assert", "AssertWithTemplate"}
        /\ (last.uerr # NoErr \/ IsReadError(last.cerr)))
        => last.aborted

\* C8 amended: in Assert and AssertWithTemplate a failed fixture write in
\* update mode is reported and aborts the test before any comparison; a read
\* error other than not-exist is reported but does not abort the test.
C8_IOFailures ==
    last.op \in {"Assert", "AssertWithTemplate"}
        => /\ last.uerr # NoErr
                 => (last.failed /\ last.aborted /\ ~last.compared)
           /\ IsReadError(last.cerr) => (last.failed /\ ~last.aborted)

\* C8 witness: an Assert in update mode could not write its fixture and
\* aborted the test.
C8_Witness ==
    /\ last.op = "Assert"
    /\ update
    /\ last.uerr # NoErr
    /\ last.aborted

\* C9: Update fails with DirectoryConflict whenever the fixture's directory
\* or an ancestor of it exists as a regular file, and then leaves the file
\* system unchanged.
C9_DirectoryConflict ==
    [][(last'.op = "Update"
          /\ \E q \in Ancestors(FileOf(last')) : q \in Files(fs))
          => (last'.uerr = newErrFixtureDirectoryIsFile /\ fs' = fs)]_vars

\* C10: after a successful Update(n, d) the containing directory is a
\* directory stamped with the run timestamp and the fixture holds exactly d.
C10_UpdateWrites ==
    (last.op = "Update" /\ last.uerr = NoErr)
        => /\ DirOf(last) \in DOMAIN fs
           /\ fs[DirOf(last)].kind = "dir"
           /\ fs[DirOf(last)].mtime = ts
           /\ FileOf(last) \in Files(fs)
           /\ fs[FileOf(last)].data = last.actualData.b

\* C10 witness: a successful Update replaced the content of an existing
\* fixture.
C10_Witness ==
    /\ last.op = "Update" /\ last.uerr = NoErr
    /\ last.prevUpdate # <<>>
    /\ last.prevUpdate[1].b # last.actualData.b
    /\ fs[FileOf(last)].data = last.actualData.b

\* C11: with the update flag set, Assert(n, d) runs Update(n, d) before it
\* compares: when the write succeeds the call compares, records no failure
\* and leaves the fixture equal to d, whatever the fixture held before; when
\* the write fails the failure is reported, the test is aborted and nothing
\* is compared.
C11_AssertUpdates ==
    (last.op = "Assert" /\ update)
        => /\ last.uerr = NoErr
                 => /\ last.compared /\ last.cerr = NoErr
                    /\ ~last.failed /\ ~last.aborted
                    /\ FileOf(last) \in Files(fs)
                    /\ fs[FileOf(last)].data = last.actualData.b
           /\ last.uerr # NoErr
                 => (last.failed /\ last.aborted /\ ~last.compared)

\* C11 witness: an Assert in update mode replaced a fixture that held other
\* bytes and recorded no failure.
C11_Witness ==
    /\ last.op = "Assert" /\ update
    /\ last.prevUpdate # <<>>
    /\ last.prevUpdate[1].b # last.actualData.b
    /\ last.uerr = NoErr /\ ~last.failed
    /\ fs[FileOf(last)].data = last.actualData.b

\* the path the naming rule gives: the fixture directory, the first segment
\* of the test identity when test-name folding is on, every later segment in
\* order when sub-test folding is on, and the name with the suffix, joined
NamingRule(g, tn, name) ==
    LET segs == Split(tn, Slash)
    IN  Join(<<g.fixtureDir>>
             \o (IF g.useTestNameForDir THEN <<Head(segs)>> ELSE <<>>)
             \o (IF g.useSubTestNameForDir THEN Tail(segs) ELSE <<>>)
             \o <<name \o g.fileNameSuffix>>)

\* C12: GoldenFileName(name) is the join of the fixture directory, the first
\* segment of the test identity if test-name folding is on, all segments
\* after the first in order if sub-test folding is on, and name+suffix.
C12_GoldenFileName ==
    (arg.fn = "GoldenFileName" /\ out # NoOut)
        => out[1] = NamingRule(arg.g, arg.tn, arg.name)

\* C12 witness: with sub-test folding only, the identity P/x/y puts the
\* fixture n in A/x/y.
C12_Witness ==
    /\ arg.fn = "GoldenFileName" /\ out # NoOut
    /\ arg.tn = <<"P", "/", "x", "/", "y">>
    /\ arg.g.useSubTestNameForDir /\ ~arg.g.useTestNameForDir
    /\ arg.g.fixtureDir = <<"A">> /\ arg.g.fileNameSuffix = <<>>
    /\ arg.name = <<"n">>
    /\ out[1] = <<"A", "/", "x", "/", "y", "/", "n">>

\* one pass over s that turns every CR LF pair and every lone CR into one LF
\* and copies every other byte
RECURSIVE LineEndings(_)
LineEndings(s) ==
    IF Len(s) = 0 THEN <<>>
    ELSE IF Len(s) > 1 /\ s[1] = CR /\ s[2] = LF
    THEN <<LF>> \o LineEndings(SubSeq(s, 3, Len(s)))
    ELSE IF s[1] = CR THEN <<LF>> \o LineEndings(Tail(s))
    ELSE <<s[1]>> \o LineEndings(Tail(s))

\* C19: normalizeLF maps every CR LF pair and every lone CR to one LF and
\* leaves every other byte unchanged; its output holds no CR, an input without
\* CR is returned unchanged, applying it twice equals applying it once, empty
\* input yields empty and nil input stays nil.
C19_NormalizeLF ==
    (arg.fn = "normalizeLF" /\ out # NoOut)
        => /\ out[1].b = LineEndings(arg.d.b)
           /\ \A i \in 1 .. Len(out[1].b) : out[1].b[i] # CR
           /\ (\A i \in 1 .. Len(arg.d.b) : arg.d.b[i] # CR) => out[1] = arg.d
           /\ normalizeLF(out[1]) = out[1]
           /\ arg.d = Bytes(<<>>) => out[1] = Bytes(<<>>)
           /\ arg.d = NilBytes => out[1] = NilBytes

\* C19 witness: a CR LF pair followed by a lone CR became two LF.
C19_Witness ==
    /\ arg.fn = "normalizeLF" /\ out # NoOut
    /\ arg.d = Bytes(<<"a", CR, LF, CR>>)
    /\ out[1] = Bytes(<<"a", LF, LF>>)

\* the strings of the set, the longest first
RECURSIVE SortLongestFirst(_)
SortLongestFirst(keys) ==
    IF keys = {} THEN <<>>
    ELSE LET top == CHOOSE k \in keys :
                        \A j \in keys \ {k} :
                            Len(j) < Len(k) \/ (Len(j) = Len(k) /\ StringLess(j, k))
         IN  <<top>> \o SortLongestFirst(keys \ {top})

\* actualData with the keys of m replaced by the references to their paths,
\* the longest key first
LongestFirst(m, actualData) ==
    replaceKeys(SortLongestFirst(DOMAIN m), m, actualData.b)

\* x occurs in y and is shorter
ProperSubstring(x, y) ==
    /\ Len(x) < Len(y)
    /\ \E i \in 1 .. Len(y) : HasAt(y, x, i)

\* C13: when the string form of one leaf is a substring of another's,
\* UpdateWithTemplate replaces the longer string first, so the fixture holds
\* actualData with each occurrence of the longer string replaced by the
\* longer leaf's placeholder.
C13_LongestFirstReplacement ==
    (last.op = "UpdateWithTemplate" /\ last.uerr = NoErr)
        => \A m \in meta(last.data) :
              (\E x, y \in DOMAIN m : ProperSubstring(x, y))
                 => fs[FileOf(last)].data = LongestFirst(m, last.actualData)

\* the scalar leaves of a data value, each with its access path: a key or a
\* field adds ".name" (the root "." taking the name directly), the element i
\* of a sequence is "index (parent) i"
RECURSIVE LeavesOf(_, _)
LeavesOf(v, path) ==
    CASE v.kind = "str" -> { [key |-> v.s, path |-> path] }
      [] v.kind = "nil" -> {}
      [] v.kind = "map" ->
            UNION { LeavesOf(v.m[k],
                             IF path = <<".">> THEN <<".">> \o k
                             ELSE path \o <<".">> \o k) : k \in DOMAIN v.m }
      [] v.kind = "struct" ->
            UNION { LeavesOf(v.fields[i][2],
                             IF path = <<".">> THEN <<".">> \o v.fields[i][1]
                             ELSE path \o <<".">> \o v.fields[i][1]) :
                      i \in 1 .. Len(v.fields) }
      [] v.kind = "slice" ->
            UNION { LeavesOf(v.elems[i],
                             <<"i", "n", "d", "e", "x", " ", "(">> \o path
                             \o <<")", " ">> \o Digit(i - 1)) :
                      i \in 1 .. Len(v.elems) }

Placeholder(path) == <<"{", "{">> \o path \o <<"}", "}">>

\* x occurs in y
Occurs(x, y) == \E i \in 1 .. Len(y) : HasAt(y, x, i)

\* the leaves do not interfere on the text s: every string form is non-empty
\* and free of braces, no two leaves have string forms of which one occurs in
\* the other, no string form occurs in a placeholder, and occurrences of
\* different string forms in s do not overlap
NonInterfering(leaves, s) ==
    /\ \A l \in leaves :
          /\ Len(l.key) > 0
          /\ \A i \in 1 .. Len(l.key) : l.key[i] \notin {"{", "}"}
    /\ \A l1, l2 \in leaves :
          /\ l1 # l2 => ~Occurs(l1.key, l2.key)
          /\ ~Occurs(l1.key, Placeholder(l2.path))
          /\ l1.key # l2.key
                => \A i, j \in 1 .. Len(s) :
                      (HasAt(s, l1.key, i) /\ HasAt(s, l2.key, j))
                         => (i + Len(l1.key) <= j \/ j + Len(l2.key) <= i)

\* s from position i on with every occurrence of a leaf's string form
\* replaced by the leaf's placeholder, in one pass
RECURSIVE Substitute(_, _, _)
Substitute(s, leaves, i) ==
    IF i > Len(s) THEN <<>>
    ELSE IF \E l \in leaves : HasAt(s, l.key, i)
    THEN LET l == CHOOSE l \in leaves : HasAt(s, l.key, i)
         IN  Placeholder(l.path) \o Substitute(s, leaves, i + Len(l.key))
    ELSE <<s[i]>> \o Substitute(s, leaves, i + 1)

Policy(g) == IF g.ignoreTemplateErrors THEN "default" ELSE "error"

\* the fixture of a recorded call parsed as a template, and its expansion on
\* the data of the call
Parsed(l) == Parse(fs[FileOf(l)].data)
Expansion(l) == Execute(Parsed(l).nodes, l.data, Policy(l.g))

\* what CompareWithTemplate returns on an existing fixture file: success
\* exactly when the fixture parses and expands to the actual bytes,
\* FixtureMismatch when it expands to other bytes
ExpandsAndCompares(l) ==
    FileOf(l) \in Files(fs)
        => /\ l.cerr = NoErr
                 <=> /\ Parsed(l).ok
                     /\ Expansion(l).ok
                     /\ Expansion(l).out = l.actualData.b
           /\ (/\ Parsed(l).ok
               /\ Expansion(l).ok
               /\ Expansion(l).out # l.actualData.b)
                 => l.cerr.kind = "FixtureMismatch"

\* C15 as stated: CompareWithTemplate expands the fixture on data and then
\* compares bytes, and fails with FixtureNotFound whenever no fixture file
\* exists at the resolved path, whatever data is.
C15_Original ==
    last.op = "CompareWithTemplate"
        => /\ ExpandsAndCompares(last)
           /\ FileOf(last) \notin Files(fs)
                 => last.cerr = newErrFixtureNotFound

\* C15 amended: CompareWithTemplate expands the fixture on data and then
\* compares bytes: it succeeds exactly when the expansion equals actual and
\* fails with FixtureMismatch when the expansion succeeds and differs; it
\* fails with FixtureNotFound, whatever data is, when nothing exists at the
\* resolved path and no ancestor of it is a regular file, and with a generic
\* read error when the path is a directory or an ancestor is a regular file.
C15_CompareTemplate ==
    last.op = "CompareWithTemplate"
        => /\ ExpandsAndCompares(last)
           /\ Lookup(fs, FileOf(last)) = "ENOENT"
                 => last.cerr = newErrFixtureNotFound
           /\ (\/ Lookup(fs, FileOf(last)) = "ENOTDIR"
               \/ FileOf(last) \in DOMAIN fs \ Files(fs))
                 => IsReadError(last.cerr)

\* C15 witness: the fixture {{.K}} compared with the data {K: ab} and the
\* actual bytes "a" gave a mismatch.
C15_Witness ==
    /\ last.op = "CompareWithTemplate"
    /\ FileOf(last) \in Files(fs)
    /\ fs[FileOf(last)].data = <<"{", "{", ".", "K", "}", "}">>
    /\ last.data = Map1(<<"K">>, DataStr(<<"a", "b">>))
    /\ last.actualData = Bytes(<<"a">>)
    /\ last.cerr.kind = "FixtureMismatch"

\* the value a field chain reaches in v lacks a step of the chain: a field
\* of nil, a key the map does not hold or a field the struct does not have
RECURSIVE Absent(_, _)
Absent(v, path) ==
    /\ Len(path) > 0
    /\ CASE v.kind = "nil" -> TRUE
         [] v.kind = "map" ->
               Head(path) \notin DOMAIN v.m
                  \/ Absent(v.m[Head(path)], Tail(path))
         [] v.kind = "struct" ->
               FieldNamed(v.fields, Head(path)) = <<>>
                  \/ Absent(FieldNamed(v.fields, Head(path))[1], Tail(path))
         [] OTHER -> FALSE

\* the template refers to a field or key that data lacks
RefersToAbsent(nodes, data) ==
    \E i \in 1 .. Len(nodes) :
        /\ nodes[i].t = "action"
        /\ nodes[i].e.op = "field"
        /\ Absent(data, nodes[i].e.path)

\* C16: when the fixture refers to a field or key absent from the data (nil,
\* a map or a struct), CompareWithTemplate fails with MissingKey under the
\* 'error' policy; under the ignore-template-errors policy it never fails
\* with MissingKey.
C16_MissingKeyPolicy ==
    (/\ last.op = "CompareWithTemplate"
     /\ FileOf(last) \in Files(fs)
     /\ Parsed(last).ok
     /\ last.data.kind \in {"nil", "map", "struct"}
     /\ RefersToAbsent(Parsed(last).nodes, last.data))
        => IF last.g.ignoreTemplateErrors
           THEN last.cerr.kind # "MissingKey"
           ELSE last.cerr.kind = "MissingKey"

ExpectedOf(l) ==
    IF l.op = "CompareWithTemplate" THEN Expansion(l).out
    ELSE fs[FileOf(l)].data

\* C18: on a mismatch in Compare or CompareWithTemplate the FixtureMismatch
\* message carries the result of the caller's diff function on (actual,
\* expected) whenever one is configured, whatever engine is selected; the
\* selected engine is used only when no custom function is set.
C18_DiffFnPrecedence ==
    (/\ last.op \in {"Compare", "CompareWithTemplate"}
     /\ last.cerr.kind = "FixtureMismatch")
        => /\ last.g.diffFn # NilDiffFn
                 => last.cerr.diff =
                       [by |-> last.g.diffFn, actual |-> last.actualData.b,
                        expected |-> ExpectedOf(last)]
           /\ last.g.diffFn = NilDiffFn
                 => last.cerr.diff =
                       [by |-> last.g.diffEngine, actual |-> last.actualData.b,
                        expected |-> ExpectedOf(last)]

\* C18 witness: a template comparison by a tester with a custom diff
\* function and the ColoredDiff engine failed with the custom function's
\* diff.
C18_Witness ==
    /\ last.op = "CompareWithTemplate"
    /\ last.g.diffFn = CustomDiffFn /\ last.g.diffEngine = "ColoredDiff"
    /\ last.cerr.kind = "FixtureMismatch"
    /\ last.cerr.diff.by = CustomDiffFn
    /\ last.cerr.diff.actual = <<"a">> /\ last.cerr.diff.expected = <<"b">>

\* C20 as stated: once New has returned, no operation on a tester, its
\* option methods included, changes the tester's configuration.
C20_Original ==
    [][\A i \in DOMAIN testers : testers'[i] = testers[i]]_vars

\* C20 amended: once New has returned, a tester's configuration is changed
\* by nothing but a call of one of its own option methods, which sets the
\* field of that option and nothing else; Update, UpdateWithTemplate, the
\* comparisons, the assertions, GoldenFileName and New leave every existing
\* tester as it is, and testers built by separate New calls share no
\* configuration: an option method called on one leaves the others unchanged.
C20_ConfigFrame ==
    [][\A i \in DOMAIN testers :
          \/ testers'[i] = testers[i]
          \/ /\ last'.op = "With"
             /\ \E o \in ConfigOptions : testers'[i] = ApplyOption(testers[i], o)
             /\ \A j \in DOMAIN testers \ {i} : testers'[j] = testers[j]]_vars

\* C20 witness: two testers live, an option method was called on one of them
\* and their configurations differ.
C20_Witness ==
    /\ Len(testers) = 2
    /\ last.op = "With"
    /\ testers[1].fixtureDir # testers[2].fixtureDir
    /\ testers[1].diffFn # testers[2].diffFn

\* the last option of the list for a setting, or the default when there is
\* none
LastFor(options, setting, default) ==
    LET at == { i \in DOMAIN options : options[i].opt = setting }
    IN  IF at = {} THEN default
        ELSE options[CHOOSE i \in at : \A j \in at : j <= i].val

\* the options up to the first one that returns an error
UpToError(options) ==
    LET bad == { i \in DOMAIN options : options[i].opt = "Error" }
    IN  IF bad = {} THEN options
        ELSE SubSeq(options, 1, (CHOOSE i \in bad : \A j \in bad : i <= j) - 1)

\* C21: New starts from the defaults and applies the options in order, a
\* later option for a setting overriding an earlier one; an option that
\* returns an error fails and aborts the test and no later option is applied.
C21_NewAppliesOptions ==
    (arg.fn = "New" /\ out # NoOut) =>
        LET applied == UpToError(arg.options)
            stopped == \E i \in DOMAIN arg.options : arg.options[i].opt = "Error"
        IN  /\ out[1].failed = stopped
            /\ out[1].aborted = stopped
            /\ out[1].g.fixtureDir
                 = LastFor(applied, "FixtureDir", defaultFixtureDir)
            /\ out[1].g.fileNameSuffix = defaultFileNameSuffix
            /\ out[1].g.filePerms = "rw-r--r--"
            /\ out[1].g.dirPerms = "rwxr-xr-x"
            /\ out[1].g.diffEngine = "ClassicDiff"
            /\ out[1].g.ignoreTemplateErrors
                 = LastFor(applied, "IgnoreTemplateErrors", FALSE)
            /\ out[1].g.useTestNameForDir = FALSE
            /\ out[1].g.useSubTestNameForDir
                 = LastFor(applied, "SubTestNameForDir", FALSE)

\* C21 witness: the second option for the fixture directory overrode the
\* first, the failing option stopped the test and the option after it was
\* not applied.
C21_Witness ==
    /\ arg.fn = "New" /\ out # NoOut
    /\ arg.options = <<Opt("FixtureDir", <<"A">>), Opt("FixtureDir", <<"B">>),
                       Opt("Error", <<>>)>>
    /\ out[1].g.fixtureDir = <<"B">>
    /\ out[1].failed /\ out[1].aborted

\* C29: with both folding toggles on and a separator-free name, two
\* different test identities resolve to different fixture paths; with both
\* toggles off the path does not depend on the test identity.
C29_TestIdentityPaths ==
    (arg.fn = "GoldenFileName" /\ out # NoOut /\ arg.name = <<"n">>) =>
        \A tn \in TestNames \ {arg.tn} :
            /\ (arg.g.useTestNameForDir /\ arg.g.useSubTestNameForDir)
                  => GoldenFileName(arg.g, tn, arg.name) # out[1]
            /\ (~arg.g.useTestNameForDir /\ ~arg.g.useSubTestNameForDir)
                  => GoldenFileName(arg.g, tn, arg.name) = out[1]

\* C22: within one run with cleanup enabled, a fixture written by a
\* successful Update is never removed by a later Update of the same run,
\* whatever the order of the target directories.
C22_RunKeepsItsFixtures ==
    [][(clean /\ last'.op = "Update" /\ last'.uerr = NoErr /\ runs' = runs)
          => \A p \in written : p \in Files(fs')]_vars

\* goroutine i writes its fixture: it calls Update, directly or from an
\* Assert with -update set
ProcWrites(i) == procs[i].op = "Update" \/ update

\* C23: two calls that run at the same time on different fixture paths do
\* not interfere: whatever the order of their file-system steps, when both
\* have returned each one succeeded and its fixture holds its payload.
C23_ConcurrentCalls ==
    (procs # <<>> /\ \A i \in DOMAIN procs : procs[i].pc = "done")
        => \A i \in DOMAIN procs :
              ProcWrites(i)
                 => /\ procs[i].err = NoErr
                    /\ ProcFile(i) \in Files(fs)
                    /\ fs[ProcFile(i)].data = procs[i].d.b

\* the call before is a successful UpdateWithTemplate and this one a
\* CompareWithTemplate by the same tester with the same name, data and
\* payload
RoundTrip(l, l2) ==
    /\ l.op = "UpdateWithTemplate" /\ l.uerr = NoErr
    /\ l2.op = "CompareWithTemplate"
    /\ l2.g = l.g /\ l2.name = l.name
    /\ l2.data = l.data /\ l2.actualData = l.actualData

\* C24: for every data value and payload, a successful UpdateWithTemplate
\* followed by CompareWithTemplate with the same name, data and payload
\* succeeds.
C24_TemplateRoundTrip ==
    [][RoundTrip(last, last') => last'.cerr = NoErr]_vars

\* C25: the bytes UpdateWithTemplate persists depend on data and actualData
\* only, not on the order in which the maps inside data are ranged over.
C25_PersistedBytesDetermined ==
    (last.op = "UpdateWithTemplate" /\ last.uerr = NoErr)
        => \A m \in meta(last.data) :
              fs[FileOf(last)].data = templated(m, last.actualData).b

\* C26: a placeholder inserted for one leaf is not altered by the
\* replacement of a later leaf: for a payload without braces, wherever the
\* persisted fixture opens an action it holds {{path}} for the path of a
\* leaf.
C26_PlaceholdersIntact ==
    (/\ last.op = "UpdateWithTemplate" /\ last.uerr = NoErr
     /\ ~Occurs(LeftDelim, last.actualData.b))
        => \A i \in 1 .. Len(fs[FileOf(last)].data) :
              HasAt(fs[FileOf(last)].data, LeftDelim, i)
                 => \E l \in LeavesOf(last.data, <<".">>) :
                       HasAt(fs[FileOf(last)].data, Placeholder(l.path), i)

\* C27: a leaf whose string form is empty contributes no replacement: with
\* data whose only leaves are empty strings the persisted fixture equals
\* actualData.
C27_EmptyLeaves ==
    (/\ last.op = "UpdateWithTemplate" /\ last.uerr = NoErr
     /\ LeavesOf(last.data, <<".">>) # {}
     /\ \A l \in LeavesOf(last.data, <<".">>) : l.key = <<>>)
        => fs[FileOf(last)].data = last.actualData.b

\* C30: with the update toggle on, an AssertWithTemplate whose fixture write
\* succeeds records no failure, whatever the data and the payload.
C30_AssertWithTemplateUpdates ==
    (last.op = "AssertWithTemplate" /\ update /\ last.uerr = NoErr)
        => ~last.failed

\* C28: with cleanup disabled, Compare(n, d) succeeds exactly when d equals
\* the payload of the most recent successful Update whose resolved path is
\* that of n, and a successful Update changes the content and the existence
\* of no fixture file but the one at its own resolved path.
C28_LatestUpdateDecides ==
    [][~clean =>
          /\ (last'.op = "Update" /\ last'.uerr = NoErr)
                => /\ latest'[FileOf(last')] = last'.actualData.b
                   /\ \A p \in (Files(fs) \cup Files(fs')) \ {FileOf(last')} :
                         p \in Files(fs) /\ p \in Files(fs') /\ fs'[p] = fs[p]
          /\ last'.op = "Compare"
                => (last'.cerr = NoErr
                      <=> /\ FileOf(last') \in DOMAIN latest
                          /\ latest[FileOf(last')] = last'.actualData.b)]_vars

\* C28 witness: Compare by the tester on A/c accepted the payload that the
\* tester on A wrote to the same path, after a fixture was written next to
\* it.
C28_Witness ==
    /\ ~clean
    /\ last.op = "Compare" /\ last.cerr = NoErr
    /\ last.g = GAc /\ last.actualData = Bytes(<<"b">>)
    /\ DOMAIN latest = {<<"A", "/", "c", "/", "f">>, <<"A", "/", "h">>}
    /\ latest[<<"A", "/", "h">>] = <<"a">>
====
